---- MODULE Spec2Model ----
(***************************************************************************)
(* A model of preflight.py: the METAR parser, the atmospheric formulas,    *)
(* the performance models, the reciprocal-runway transform and the main    *)
(* run that prints one performance block per runway end.                   *)
(*                                                                         *)
(* Representation.  A Python str is a sequence of one-character strings.   *)
(* An optional value is a sequence of length 0 (None) or 1 (the value).    *)
(* A Python float is a decimal fixed-point integer; every definition says  *)
(* which unit it uses (E4 = 1/10^4, E5 = 1/10^5, E7 = 1/10^7, E8 = 1/10^8).             *)
(***************************************************************************)
EXTENDS Integers, Sequences, FiniteSets, TLC

VARIABLES
    \* ---- the main run (__main__) ----
    pc,            \* position of the run in __main__
    exc,           \* the exception that ended the run, "" when none
    ident,         \* args.ident.upper()
    response,      \* what the weather service answers (None or text)
    airports_csv,  \* rows of airports.csv
    runways_csv,   \* rows of runways.csv
    args,          \* the loading arguments -f -m -r -g -G -B -b and --runway
    metar,         \* fetch_metar's result
    d,             \* parse_metar's result
    weight,        \* weight_balance's result: weight (1/100 lb), moment, cg
    airport,       \* the selected rows of airports.csv
    elevation,     \* float(airport.elevation_ft.values[0]), ft
    da,            \* density altitude, ft
    pa,            \* pressure altitude, ft
    to_nw,         \* takeoff_50_nowind(weight, da)
    land_nw,       \* landing_50_nowind(weight, da)
    summary,       \* headwind and crosswind for --runway, printed with the weather
    rws,           \* the selected rows of runways.csv
    idx,           \* index of the runway record the loop is at
    phase,         \* "fwd" or "rev": which call of print_performance is next
    rows,          \* the performance blocks printed so far
    calls,         \* the performance-model functions called so far, in order
    \* ---- rev_name and the heading transform applied repeatedly ----
    rn_orig, rn_cur, rn_count,
    \* ---- parse_metar applied to one report ----
    m_in, m_result,
    \* ---- accelerate_stop_distance applied to varying inputs ----
    a_in, a_out, a_prev, a_step

runVars == <<pc, exc, ident, response, airports_csv, runways_csv, args, metar, d,
             weight, airport, elevation, da, pa, to_nw, land_nw, summary, rws, idx, phase,
             rows, calls>>
revVars == <<rn_orig, rn_cur, rn_count>>
metarVars == <<m_in, m_result>>
asdVars == <<a_in, a_out, a_prev, a_step>>
otherVars == <<revVars, metarVars, asdVars>>
vars == <<runVars, otherVars>>

(***************************************************************************)
(* Python values                                                           *)
(***************************************************************************)
None == <<>>
Some(v) == <<v>>
IsNone(o) == o = <<>>
Val(o) == o[1]

Digits == {"0", "1", "2", "3", "4", "5", "6", "7", "8", "9"}
Letters == {"A", "B", "C", "D", "E", "F", "G", "H", "I", "J", "K", "L", "M",
            "N", "O", "P", "Q", "R", "S", "T", "U", "V", "W", "X", "Y", "Z"}

DigitVal(c) ==
    CASE c = "0" -> 0 [] c = "1" -> 1 [] c = "2" -> 2 [] c = "3" -> 3 [] c = "4" -> 4
      [] c = "5" -> 5 [] c = "6" -> 6 [] c = "7" -> 7 [] c = "8" -> 8 [] c = "9" -> 9

DigitChar(n) ==
    CASE n = 0 -> "0" [] n = 1 -> "1" [] n = 2 -> "2" [] n = 3 -> "3" [] n = 4 -> "4"
      [] n = 5 -> "5" [] n = 6 -> "6" [] n = 7 -> "7" [] n = 8 -> "8" [] n = 9 -> "9"

\* int(s) for a str of decimal digits; the caller checks that s is one.
RECURSIVE int(_)
int(s) ==
    IF Len(s) = 0 THEN 0
    ELSE 10 * int(SubSeq(s, 1, Len(s) - 1)) + DigitVal(s[Len(s)])

IsNumeral(s) == Len(s) > 0 /\ \A i \in 1..Len(s) : s[i] \in Digits

\* str(n) for n >= 0: the decimal digits, no padding.
RECURSIVE str(_)
str(n) ==
    IF n < 10 THEN <<DigitChar(n)>>
    ELSE Append(str(n \div 10), DigitChar(n % 10))

Abs(x) == IF x < 0 THEN -x ELSE x
Max(a, b) == IF a >= b THEN a ELSE b
Min(a, b) == IF a <= b THEN a ELSE b
\* int(x) of a float x = n / unit: truncation toward zero.
Trunc(n, unit) == IF n >= 0 THEN n \div unit ELSE -((-n) \div unit)

(***************************************************************************)
(* rev_name: the designator of the reciprocal runway end                   *)
(***************************************************************************)
ValueError == <<"ValueError">>

rev_name(name) ==
    LET head == SubSeq(name, 1, Min(2, Len(name)))
    IN  IF ~IsNumeral(head) THEN ValueError
        ELSE LET n == (int(head) + 18) % 36
                 name_dir == IF n = 0 THEN 36 ELSE n
             IN  IF Len(name) <= 2 THEN str(name_dir)
                 ELSE IF name[3] = "L" THEN Append(str(name_dir), "R")
                 ELSE Append(str(name_dir), "L")

\* le = (float(rw.he_heading_degT) + 180) % 360, in degrees
rev_heading(h) == (h + 180) % 360

(***************************************************************************)
(* parse_metar: the fields of a report, each found by its own pattern      *)
(***************************************************************************)
\* The character at 1-based position i, "" outside the text.
At(s, i) == IF i \in 1..Len(s) THEN s[i] ELSE ""
IsDigit(c) == c \in Digits
\* \w of the re module, for the characters a report holds
IsWord(c) == c \in Digits \cup Letters \cup {"_"}
IsSpace(c) == c = " "
\* \b between position i - 1 and position i
WordBoundary(s, i) == IsWord(At(s, i - 1)) # IsWord(At(s, i))
DigitsAt(s, i, n) == \A k \in 0..(n - 1) : IsDigit(At(s, i + k))
Slice(s, i, n) == [k \in 1..n |-> At(s, i + k - 1)]
\* re.search: the leftmost position where the pattern matches, 0 when none
Leftmost(S) == IF S = {} THEN 0 ELSE CHOOSE i \in S : \A j \in S : i <= j

\* tokens = metar.split(); tokens[0]
FirstToken(s) ==
    LET start == Leftmost({i \in 1..Len(s) : ~IsSpace(s[i])})
        stop == Leftmost({i \in start..(Len(s) + 1) : IsSpace(At(s, i)) \/ i = Len(s) + 1})
    IN  IF start = 0 THEN None ELSE Some(SubSeq(s, start, stop - 1))

\* r'\b(\d{2})(\d{2})(\d{2})Z\b'
TimeAt(s, i) ==
    /\ WordBoundary(s, i)
    /\ DigitsAt(s, i, 6)
    /\ At(s, i + 6) = "Z"
    /\ WordBoundary(s, i + 7)

\* r'\b(\d{3}|VRB)(\d{2})(G\d{2})?KT\b'
WindHasGust(s, i) == At(s, i + 5) = "G" /\ DigitsAt(s, i + 6, 2)
WindAt(s, i) ==
    /\ WordBoundary(s, i)
    /\ \/ DigitsAt(s, i, 3)
       \/ Slice(s, i, 3) = <<"V", "R", "B">>
    /\ DigitsAt(s, i + 3, 2)
    /\ \/ /\ WindHasGust(s, i)
          /\ At(s, i + 8) = "K" /\ At(s, i + 9) = "T"
          /\ WordBoundary(s, i + 10)
       \/ /\ At(s, i + 5) = "K" /\ At(s, i + 6) = "T"
          /\ WordBoundary(s, i + 7)

\* r'\b(\d{3})V(\d{3})\b'
VarWindAt(s, i) ==
    /\ WordBoundary(s, i)
    /\ DigitsAt(s, i, 3)
    /\ At(s, i + 3) = "V"
    /\ DigitsAt(s, i + 4, 3)
    /\ WordBoundary(s, i + 7)

\* M?\d{2} at position i: its length, 0 when it does not match there
SignedLen(s, i) ==
    IF At(s, i) = "M" /\ DigitsAt(s, i + 1, 2) THEN 3
    ELSE IF DigitsAt(s, i, 2) THEN 2
    ELSE 0
\* int(t.replace('M', '-'))
SignedVal(s, i) ==
    IF At(s, i) = "M" THEN -int(Slice(s, i + 1, 2)) ELSE int(Slice(s, i, 2))

\* r'\b(M?\d{2})/(M?\d{2})\b'
TempAt(s, i) ==
    LET n1 == SignedLen(s, i)
        n2 == SignedLen(s, i + n1 + 1)
    IN  /\ WordBoundary(s, i)
        /\ n1 > 0
        /\ At(s, i + n1) = "/"
        /\ n2 > 0
        /\ WordBoundary(s, i + n1 + 1 + n2)

\* r'\bA(\d{4})\b'
PressureAt(s, i) ==
    /\ WordBoundary(s, i)
    /\ At(s, i) = "A"
    /\ DigitsAt(s, i + 1, 4)
    /\ WordBoundary(s, i + 5)

\* r'\bRMK\s+(.*)'
RemarksAt(s, i) ==
    /\ WordBoundary(s, i)
    /\ Slice(s, i, 3) = <<"R", "M", "K">>
    /\ IsSpace(At(s, i + 3))
\* group(1).strip(): the text after the blanks that follow RMK
RemarksText(s, i) ==
    LET start == Leftmost({j \in (i + 3)..(Len(s) + 1) : ~IsSpace(At(s, j))})
        stop == Leftmost({j \in start..(Len(s) + 1) :
                            \A k \in j..Len(s) : IsSpace(s[k])})
    IN  SubSeq(s, start, stop - 1)

Positions(s) == 1..Len(s)

\* pressure_inhg is in 1/100 inHg: float('30' + '.' + '04') is 3004
parse_metar(s) ==
    LET time_match == Leftmost({i \in Positions(s) : TimeAt(s, i)})
        wind_match == Leftmost({i \in Positions(s) : WindAt(s, i)})
        var_wind_match == Leftmost({i \in Positions(s) : VarWindAt(s, i)})
        temp_match == Leftmost({i \in Positions(s) : TempAt(s, i)})
        pressure_match == Leftmost({i \in Positions(s) : PressureAt(s, i)})
        remarks_match == Leftmost({i \in Positions(s) : RemarksAt(s, i)})
        vrb == At(s, wind_match) = "V"
        speed == int(Slice(s, wind_match + 3, 2))
    IN  [ airport |-> FirstToken(s),
          time_utc |->
              IF time_match = 0 THEN None
              ELSE Some(Slice(s, time_match, 2) \o <<"T">> \o Slice(s, time_match + 2, 2)
                        \o <<":">> \o Slice(s, time_match + 4, 2) \o <<"Z">>),
          wind_direction |->
              IF wind_match = 0 \/ vrb THEN 0 ELSE int(Slice(s, wind_match, 3)),
          wind_speed_kt |->
              IF wind_match = 0 \/ vrb THEN 0 ELSE speed,
          wind_gust_kt |->
              IF wind_match = 0 THEN 0
              ELSE IF WindHasGust(s, wind_match) THEN int(Slice(s, wind_match + 6, 2))
              ELSE speed,
          variable_wind_dir |->
              IF var_wind_match = 0 THEN None
              ELSE Some(Slice(s, var_wind_match, 3) \o <<"V">>
                        \o Slice(s, var_wind_match + 4, 3)),
          temperature_c |->
              IF temp_match = 0 THEN None ELSE Some(SignedVal(s, temp_match)),
          dewpoint_c |->
              IF temp_match = 0 THEN None
              ELSE Some(SignedVal(s, temp_match + SignedLen(s, temp_match) + 1)),
          pressure_inhg |->
              IF pressure_match = 0 THEN None
              ELSE Some(int(Slice(s, pressure_match + 1, 4))),
          remarks |->
              IF remarks_match = 0 THEN None ELSE Some(RemarksText(s, remarks_match)) ]

(***************************************************************************)
(* Fixed-point arithmetic.  TLC's integers are 32 bits wide, so a product  *)
(* of two fixed-point numbers is formed from their base-10^4 limbs.        *)
(***************************************************************************)
\* floor(a * b / 10^(4 * m)) for 0 <= a, b < 2^31 and m in 1..3
MulShiftNat(a, b, m) ==
    LET a0 == a % 10000
        a1 == (a \div 10000) % 10000
        a2 == a \div 100000000
        b0 == b % 10000
        b1 == (b \div 10000) % 10000
        b2 == b \div 100000000
        p0 == a0 * b0
        p1 == a0 * b1 + a1 * b0
        p2 == a0 * b2 + a1 * b1 + a2 * b0
        p3 == a1 * b2 + a2 * b1
        p4 == a2 * b2
        s1 == p0 \div 10000 + p1
        s2 == s1 \div 10000 + p2
        s3 == s2 \div 10000 + p3
    IN  CASE m = 1 -> s1 + 10000 * (p2 + 10000 * (p3 + 10000 * p4))
          [] m = 2 -> s2 + 10000 * (p3 + 10000 * p4)
          [] m = 3 -> s3 + 10000 * p4

\* a * b / 10^(4 * m), truncated toward zero, for signed a and b
MulShift(a, b, m) ==
    IF (a < 0) = (b < 0) THEN MulShiftNat(Abs(a), Abs(b), m)
    ELSE -MulShiftNat(Abs(a), Abs(b), m)

MulE4(a, b) == MulShift(a, b, 1)
MulE8(a, b) == MulShift(a, b, 2)

\* floor(num * 10^k / den) for num >= 0 and 0 < den < 2 * 10^8, by long division
RECURSIVE DivDigits(_, _, _, _)
DivDigits(q, r, den, k) ==
    IF k = 0 THEN q
    ELSE DivDigits(10 * q + (10 * r) \div den, (10 * r) % den, den, k - 1)
DivE(num, den, k) == DivDigits(num \div den, num % den, den, k)

\* round(x) of a float x = n / 10^5 >= 0: to the nearest integer, a tie to the even one
round(n) ==
    LET q == n \div 100000
        r == n % 100000
    IN  IF r > 50000 \/ (r = 50000 /\ q % 2 = 1) THEN q + 1 ELSE q

(***************************************************************************)
(* accelerate_stop_distance.  Units of the arguments: temperature_f in     *)
(* 1/10 F, pressure_altitude_ft in 1/100 ft, gross_weight_lbs in 1/100 lb, *)
(* headwind_mph in 1/100 mph.  The factors are in E8, the distance in E5.  *)
(* The two non-integer powers are tabulated from the source's expressions  *)
(* at the altitudes the model uses.                                        *)
(***************************************************************************)
\* altitude_ratio ** (-4.2561), in E8, at the altitudes p (1/100 ft) the model uses
RatioPowE8(p) ==
    CASE p = -200000 -> 94352942
      [] p = -100000 -> 97125804
      [] p = -23700 -> 99309421
      [] p = 0 -> 100000000
      [] p = 1300 -> 100038051
      [] p = 2965 -> 100086812
      [] p = 2992 -> 100087602
      [] p = 3017 -> 100088335
      [] p = 28300 -> 100832401
      [] p = 500000 -> 116054579
      [] p = 510500 -> 116424595
      [] p = 535500 -> 117311467
      [] p = 562500 -> 118278679
      [] p = 1500000 -> 158926467

\* (p / 8000.0) ** 1.2 for p >= 0 and (abs(p) / 8000.0) ** 0.8 for p < 0, in E8
DeviationPowE8(p) ==
    CASE p = -200000 -> 32987697
      [] p = -100000 -> 18946457
      [] p = -23700 -> 5988619
      [] p = 0 -> 0
      [] p = 1300 -> 44980
      [] p = 2965 -> 120982
      [] p = 2992 -> 122305
      [] p = 3017 -> 123532
      [] p = 28300 -> 1813158
      [] p = 500000 -> 56892631
      [] p = 510500 -> 58329319
      [] p = 535500 -> 61773667
      [] p = 562500 -> 65529830
      [] p = 1500000 -> 212618733

\* max(lo, min(hi, x))
Clamp(lo, hi, x) == Max(lo, Min(hi, x))

\* lines 37-40: input validation and bounds checking
ClampTemperature(t) == Clamp(-600, 1400, t)
ClampAltitude(p) == Clamp(-200000, 1500000, p)
ClampWeight(w) == Clamp(300000, 560000, w)
ClampHeadwind(h) == Clamp(0, 2500, h)

\* temp_rankine / temp_std_rankine
temp_factor(t) == DivE(10 * t + 45967, 51867, 8)

altitude_factor(p) ==
    IF p >= -200000
    THEN LET base == RatioPowE8(p)
         IN  IF p < 0
             THEN \* negative_alt_bonus = abs(p) / 10000.0; factor *= 1 - bonus * 0.1
                  Max(50000000, MulE8(base, 100000000 - 10 * Abs(p)))
             ELSE base
    ELSE IF p <= 3608900 THEN RatioPowE8(p)
    ELSE 400000000

weight_factor(w) == DivE(w, 440000, 8)

\* max(0.4, min(1.0, 1.0 - headwind_mph * 0.025))
headwind_factor(h) == Clamp(40000000, 100000000, 100000000 - 25000 * h)

\* 1.0 + (temp_deviation / 80.0) ** 2 * 0.08
temp_correction(t) == 100000000 + (25 * (t - 590) * (t - 590)) \div 2

altitude_correction(p) ==
    IF p >= 0 THEN 100000000 + MulE8(DeviationPowE8(p), 12000000)
    ELSE Max(70000000, 100000000 - MulE8(DeviationPowE8(p), 8000000))

\* 1.0 + (weight_deviation / 1000.0) ** 2 * 0.05
weight_correction(w) == 100000000 + MulE4(5 * Abs(w - 440000), Abs(w - 440000))

\* ClampDistance without the lower limit: distance = min(8000, distance)
ClampDistanceNoFloor(x) == Min(800000000, x)

\* distance = max(600, min(8000, distance)), in E5
ClampDistance(x) == Clamp(60000000, 800000000, x)

accelerate_stop_distance(temperature_f, pressure_altitude_ft, gross_weight_lbs, headwind_mph) ==
    LET t == ClampTemperature(temperature_f)
        p == ClampAltitude(pressure_altitude_ft)
        w == ClampWeight(gross_weight_lbs)
        h == ClampHeadwind(headwind_mph)
        d1 == MulE8(180000000, temp_factor(t))
        d2 == MulE8(d1, altitude_factor(p))
        d3 == MulE8(d2, weight_factor(w))
        d4 == MulE8(d3, headwind_factor(h))
        d5 == MulE8(d4, temp_correction(t))
        d6 == MulE8(d5, altitude_correction(p))
        distance == MulE8(d6, weight_correction(w))
    IN  round(ClampDistance(distance))

(***************************************************************************)
(* weight_balance and the atmospheric formulas                             *)
(***************************************************************************)
\* weight in 1/100 lb, moment in lb in, cg = moment / weight in E4 in
weight_balance(front, middle, rear, fuel_main, fuel_tips, fbaggage, rbaggage) ==
    LET w == 319395 + 100 * (front + middle + rear + fuel_main * 6 + fuel_tips * 6
                             + fbaggage + rbaggage)
        m == 290084 + 89 * front + 126 * middle + 157 * rear + 113 * fuel_main * 6
             + 116 * fuel_tips * 6 + 10 * fbaggage + 183 * rbaggage
    IN  [weight |-> w, moment |-> m, cg |-> DivE(100 * m, w, 4)]

\* int(altitude + 1000 * (29.92 - altimeter)); altitude in ft, altimeter in 1/100 inHg.
\* The binary rounding of 29.92 - altimeter is below the model's resolution: the
\* reports of the run use settings (29.92, 30.17, 29.65) where both agree.
pressure_altitude(altitude, altimeter) == altitude + 10 * (2992 - altimeter)

\* tstd = 15 - elev / 1000 * 2; int(pa + (oat - tstd) * 120); the sum is in 1/100 ft.
\* (The airports of the model have elevations where the sum is no whole number, so
\* that the truncation does not rest on the last bit of the float sum.)
density_altitude(elev, altimeter, oat) ==
    LET tstd_ft == 1500000 - 200 * elev   \* tstd * 10^5
        pa_ == pressure_altitude(elev, altimeter)
    IN  Trunc(100 * pa_ + (12 * (100000 * oat - tstd_ft)) \div 100, 100)

(***************************************************************************)
(* The distance polynomials.  The variables are x = feet / 10^4 and        *)
(* y = lb / 10^4 (or mph / 100), in E8; a coefficient is the source's,     *)
(* scaled by the same powers of ten, in E4 feet; a term is the coefficient *)
(* multiplied by its variables one after the other, in E4 feet.            *)
(* int(dist) truncates the sum toward zero.                                *)
(***************************************************************************)
Term1(coeff, a) == MulE8(coeff, a)
Term2(coeff, a, b) == MulE8(MulE8(coeff, a), b)
Term3(coeff, a, b, c) == MulE8(MulE8(MulE8(coeff, a), b), c)

takeoff_50_nowind(w, da_) ==
    LET x == 10000 * da_        \* da / 10^4 in E8
        y == 100 * w            \* w / 10^4 in E8, w in 1/100 lb
        dist == 13                                      \*   1.317919e-03
                - Term1(92488070, x)                     \* - 9.248807e-01 * da
                + Term1(201071200, y)                    \* + 2.010712e+00 * w
                - Term2(138275000, x, x)                   \* - 1.382750e-04 * da**2
                + Term2(610798200, x, y)                   \* + 6.107982e-04 * da*w
                - Term2(701173000, y, y)                   \* - 7.011730e-04 * w**2
                + Term3(43159730, x, x, x)          \* + 4.315973e-09 * da**3
                + Term3(214711300, x, x, y)         \* + 2.147113e-08 * da**2*w
                - Term3(801688800, x, y, y)         \* - 8.016888e-08 * da*w**2
                + Term3(705825900, y, y, y)         \* + 7.058259e-08 * w**3
    IN  Trunc(dist, 10000)

\* W and DA of landing_50_nowind, DA = np.arange(0, 9000, 1000)
LandW == <<4000, 4400, 4800, 5200>>
LandDA == <<0, 1000, 2000, 3000, 4000, 5000, 6000, 7000, 8000>>
LandDIST ==
    << <<1380, 1407, 1437, 1470, 1505, 1540, 1575, 1615, 1655>>,
       <<1480, 1510, 1540, 1575, 1610, 1650, 1690, 1730, 1775>>,
       <<1580, 1610, 1645, 1685, 1725, 1770, 1810, 1855, 1900>>,
       <<1680, 1715, 1750, 1790, 1835, 1880, 1925, 1975, 2025>> >>

\* The cell of a grid a point falls in: np.searchsorted(grid, x) - 1, kept within
\* 1..Len(grid) - 1 (1-based), so that a point outside the grid uses the edge cell.
\* x and the grid are in the same unit after scaling the grid by unit.
GridCell(grid, unit, x) ==
    LET below == Cardinality({k \in 1..Len(grid) : unit * grid[k] < x})
    IN  Max(1, Min(Len(grid) - 1, below))

\* RegularGridInterpolator((W, DA), DIST, bounds_error=False, fill_value=None):
\* bilinear inside the grid, linear extrapolation from the edge cell outside.
landing_50_nowind(w, da_) ==
    LET i == GridCell(LandW, 100, w)
        j == GridCell(LandDA, 1, da_)
        \* norm_distances, in E8
        yw == 2500 * (w - 100 * LandW[i])
        yd == 100000 * (da_ - LandDA[j])
        Corner(v, wi, wj) == MulE8(10000 * v, MulE8(wi, wj))
        value == Corner(LandDIST[i][j], 100000000 - yw, 100000000 - yd)
                 + Corner(LandDIST[i][j + 1], 100000000 - yw, yd)
                 + Corner(LandDIST[i + 1][j], yw, 100000000 - yd)
                 + Corner(LandDIST[i + 1][j + 1], yw, yd)
    IN  Trunc(value, 10000)

\* w is the headwind in 1/100 mph, t the no-wind takeoff distance in ft
headwind_takeoff(w, t) ==
    LET x == 10000 * t          \* t / 10^4 in E8
        y == 10000 * w          \* w / 100 in E8
        dist == - 1345024                               \* - 1.345024e+02
                + Term1(121267700, x)                    \* + 1.212677e+00 * t
                - Term1(1580498, y)                      \* - 1.580498e+00 * w
                - Term2(100100300, x, x)                   \* - 1.001003e-04 * t**2
                + Term2(1770352, y, y)                     \* + 1.770352e-02 * w**2
                - Term2(217966900, x, y)                   \* - 2.179669e-02 * t*w
                + Term3(141745000, x, x, x)         \* + 1.417450e-08 * t**3
                + Term3(70765940, x, x, y)          \* + 7.076594e-07 * t**2*w
                + Term3(337979700, x, y, y)         \* + 3.379797e-04 * t*w**2
                - Term3(150000000, y, y, y)         \* - 1.500000e-02 * w**3
    IN  Trunc(dist, 10000)

\* w is the headwind in 1/100 mph, l the no-wind landing distance in ft
headwind_land(w, l) ==
    LET x == 10000 * l          \* l / 10^4 in E8
        y == 10000 * w          \* w / 100 in E8
        dist == - 7384758                               \* - 7.384758e+02
                + Term1(239802300, x)                    \* + 2.398023e+00 * l
                - Term1(4749474, 1000 * w)               \* - 4.749474e-01 * w
                - Term2(865113400, x, x)                   \* - 8.651134e-04 * l**2
                - Term2(152869900, x, y)                   \* - 1.528699e-02 * l*w
                - Term2(3277356, y, y)                     \* - 3.277356e-02 * w**2
                + Term3(1751042000, x, x, x)        \* + 1.751042e-07 * l**3
                + Term3(211136300, x, x, y)         \* + 2.111363e-06 * l**2*w
                + Term3(3409930, x, y, y)           \* + 3.409930e-06 * l*w**2
                + Term3(24242420, y, y, y)          \* + 2.424242e-03 * w**3
    IN  Trunc(dist, 10000)

(***************************************************************************)
(* Wind components.  math.cos(math.radians(a)) and math.sin(math.radians(a))*)
(* in E7, truncated toward zero, for a = 0, 10, ..., 360 degrees.          *)
(***************************************************************************)
CosE7 ==
    << 10000000, 9848077, 9396926, 8660254, 7660444, 6427876, 5000000, 3420201,
       1736481, 0, -1736481, -3420201, -4999999, -6427876, -7660444, -8660254,
       -9396926, -9848077, -10000000, -9848077, -9396926, -8660254, -7660444, -6427876,
       -5000000, -3420201, -1736481, 0, 1736481, 3420201, 5000000, 6427876,
       7660444, 8660254, 9396926, 9848077, 10000000 >>
SinE7 ==
    << 0, 1736481, 3420201, 4999999, 6427876, 7660444, 8660254, 9396926,
       9848077, 10000000, 9848077, 9396926, 8660254, 7660444, 6427876, 4999999,
       3420201, 1736481, 0, -1736481, -3420201, -5000000, -6427876, -7660444,
       -8660254, -9396926, -9848077, -10000000, -9848077, -9396926, -8660254, -7660444,
       -6427876, -5000000, -3420201, -1736481, 0 >>

cos_deg(a) == CosE7[Abs(a) \div 10 + 1]
sin_deg(a) == IF a >= 0 THEN SinE7[a \div 10 + 1] ELSE -SinE7[(-a) \div 10 + 1]

\* int(speed * math.cos(math.radians(direction - le)))
headwind_kt(speed, direction, le) == Trunc(speed * cos_deg(direction - le), 10000000)
\* int(speed * math.sin(math.radians(direction - le)))
crosswind_kt(speed, direction, le) == Trunc(speed * sin_deg(direction - le), 10000000)

(***************************************************************************)
(* The inputs of a run                                                     *)
(***************************************************************************)
Join(tokens) ==
    LET RECURSIVE J(_)
        J(k) == IF k = 0 THEN <<>>
                ELSE IF k = 1 THEN tokens[1]
                ELSE J(k - 1) \o <<" ">> \o tokens[k]
    IN  J(Len(tokens))

Station == <<"K", "X", "Y", "Z">>
ObsTime == <<"3", "1", "1", "9", "5", "6", "Z">>

\* The answers of the weather service a run may get: status and body.
Responses ==
    { [status |-> 503, text |-> <<>>],
      [status |-> 200, text |-> <<>>],
      [status |-> 200, text |-> Join(<<Station, ObsTime, <<"1", "4", "0", "1", "2", "G", "1", "8", "K", "T">>, <<"3", "2", "/", "2", "6">>, <<"A", "2", "9", "9", "2">>>>)],
      [status |-> 200, text |-> Join(<<Station, ObsTime, <<"0", "9", "0", "1", "0", "K", "T">>, <<"1", "5", "/", "1", "0">>, <<"A", "3", "0", "1", "7">>>>)],
      [status |-> 200, text |-> Join(<<Station, ObsTime, <<"1", "4", "0", "1", "2", "G", "1", "8", "K", "T">>, <<"A", "2", "9", "9", "2">>>>)],
      [status |-> 200, text |-> Join(<<Station, ObsTime, <<"1", "4", "0", "1", "2", "G", "1", "8", "K", "T">>, <<"3", "2", "/", "2", "6">>>>)] }

\* args.ident.upper()
Idents == { <<"K", "X", "Y", "Z">>, <<"K", "A", "B", "C">>, <<"K", "Z", "Z", "Z">> }

\* airports.csv: ident and elevation_ft
AirportsCsv ==
    << [ident |-> <<"K", "X", "Y", "Z">>, elevation_ft |-> 13],
       [ident |-> <<"A", "B", "C">>, elevation_ft |-> 5355] >>

\* Rows of runways.csv: the low end's designator and heading, the high end's, the
\* length and the closed flag.
RunwayRows ==
    { [airport_ident |-> <<"K", "X", "Y", "Z">>, le_ident |-> <<"0", "9", "L">>, le_heading_degT |-> 90, he_ident |-> <<"2", "7", "R">>,
       he_heading_degT |-> 270, length_ft |-> 5000, closed |-> 0],
      [airport_ident |-> <<"K", "X", "Y", "Z">>, le_ident |-> <<"1", "8">>, le_heading_degT |-> 180, he_ident |-> <<"3", "6">>,
       he_heading_degT |-> 360, length_ft |-> 3200, closed |-> 0],
      [airport_ident |-> <<"K", "X", "Y", "Z">>, le_ident |-> <<"1", "4">>, le_heading_degT |-> 140, he_ident |-> <<"3", "2">>,
       he_heading_degT |-> 320, length_ft |-> 2800, closed |-> 1],
      [airport_ident |-> <<"K", "X", "Y", "Z">>, le_ident |-> <<"1", "8", "W">>, le_heading_degT |-> 180, he_ident |-> <<"3", "6", "W">>,
       he_heading_degT |-> 360, length_ft |-> 9000, closed |-> 0],
      [airport_ident |-> <<"A", "B", "C">>, le_ident |-> <<"0", "5", "R">>, le_heading_degT |-> 50, he_ident |-> <<"2", "3", "L">>,
       he_heading_degT |-> 230, length_ft |-> 7000, closed |-> 0] }

\* The most rows runways.csv holds in the model.
MaxRunways == 2

RECURSIVE SeqsUpTo(_, _)
SeqsUpTo(S, n) ==
    IF n = 0 THEN {<<>>}
    ELSE LET shorter == SeqsUpTo(S, n - 1)
         IN  shorter \cup {Append(q, x) : q \in {t \in shorter : Len(t) = n - 1}, x \in S}

\* -f -m -r -g -G -b -B and --runway, the first with the parser's defaults
ArgSets ==
    { [f |-> 200, m |-> 0, r |-> 0, g |-> 140, G |-> 36, b |-> 10, B |-> 10, runway |-> 0],
      [f |-> 380, m |-> 300, r |-> 0, g |-> 140, G |-> 36, b |-> 60, B |-> 20, runway |-> 9] }

(***************************************************************************)
(* The run: __main__, one action per statement that computes something     *)
(***************************************************************************)
Unset == <<>>

\* df[df.column == value], the rows kept in their order
RECURSIVE SelectRows(_, _, _)
SelectRows(table, column, value) ==
    IF table = <<>> THEN <<>>
    ELSE LET rest == SelectRows(Tail(table), column, value)
         IN  IF Head(table)[column] = value THEN <<Head(table)>> \o rest ELSE rest

\* airports[airports.ident == ident], or with ident[1:] when that is empty
SelectAirport(table, id) ==
    LET exact == SelectRows(table, "ident", id)
    IN  IF exact = <<>> THEN SelectRows(table, "ident", Tail(id)) ELSE exact

\* runways[runways.airport_ident == ident], or with ident[1:] when that is empty
SelectRunways(table, id) ==
    LET exact == SelectRows(table, "airport_ident", id)
    IN  IF exact = <<>> THEN SelectRows(table, "airport_ident", Tail(id)) ELSE exact

RunInit ==
    /\ pc = "fetch"
    /\ exc = ""
    /\ ident \in Idents
    /\ response \in Responses
    /\ airports_csv = AirportsCsv
    /\ runways_csv \in SeqsUpTo(RunwayRows, MaxRunways)
    /\ args \in ArgSets
    /\ metar = Unset
    /\ d = Unset
    /\ weight = Unset
    /\ airport = Unset
    /\ elevation = 0
    /\ da = 0
    /\ pa = 0
    /\ to_nw = 0
    /\ land_nw = 0
    /\ summary = Unset
    /\ rws = Unset
    /\ idx = 0
    /\ phase = "fwd"
    /\ rows = <<>>
    /\ calls = <<>>

\* fetch_metar: the stripped body of a 200 answer, else None; "if not metar: exit(1)"
FetchMetar ==
    /\ pc = "fetch"
    /\ metar' = IF response.status = 200 THEN Some(response.text) ELSE None
    /\ pc' = IF IsNone(metar') \/ Val(metar') = <<>> THEN "exit" ELSE "parse"
    /\ UNCHANGED <<exc, ident, response, airports_csv, runways_csv, args, d, weight,
                   airport, elevation, da, pa, to_nw, land_nw, summary, rws, idx, phase,
                   rows, calls>>
    /\ UNCHANGED otherVars

ParseMetar ==
    /\ pc = "parse"
    /\ d' = parse_metar(Val(metar))
    /\ pc' = "weigh"
    /\ UNCHANGED <<exc, ident, response, airports_csv, runways_csv, args, metar, weight,
                   airport, elevation, da, pa, to_nw, land_nw, summary, rws, idx, phase,
                   rows, calls>>
    /\ UNCHANGED otherVars

\* weight_balance(args.f, args.m, args.r, args.g, args.G, args.B, args.b)
WeightBalance ==
    /\ pc = "weigh"
    /\ weight' = weight_balance(args.f, args.m, args.r, args.g, args.G, args.B, args.b)
    /\ pc' = "airport"
    /\ UNCHANGED <<exc, ident, response, airports_csv, runways_csv, args, metar, d,
                   airport, elevation, da, pa, to_nw, land_nw, summary, rws, idx, phase,
                   rows, calls>>
    /\ UNCHANGED otherVars

LookupAirport ==
    /\ pc = "airport"
    /\ airport' = SelectAirport(airports_csv, ident)
    /\ pc' = "elevation"
    /\ UNCHANGED <<exc, ident, response, airports_csv, runways_csv, args, metar, d,
                   weight, elevation, da, pa, to_nw, land_nw, summary, rws, idx, phase,
                   rows, calls>>
    /\ UNCHANGED otherVars

\* elevation = float(airport.elevation_ft.values[0]): IndexError on an empty selection
Elevation ==
    /\ pc = "elevation"
    /\ IF airport = <<>>
       THEN /\ pc' = "raised"
            /\ exc' = "IndexError"
            /\ UNCHANGED elevation
       ELSE /\ pc' = "density"
            /\ elevation' = airport[1].elevation_ft
            /\ UNCHANGED exc
    /\ UNCHANGED <<ident, response, airports_csv, runways_csv, args, metar, d, weight,
                   airport, da, pa, to_nw, land_nw, summary, rws, idx, phase, rows, calls>>
    /\ UNCHANGED otherVars

\* da = density_altitude(elevation, d['pressure_inhg'], d['temperature_c']):
\* 29.92 - None and None - tstd raise TypeError
DensityAltitude ==
    /\ pc = "density"
    /\ IF IsNone(d.pressure_inhg) \/ IsNone(d.temperature_c)
       THEN /\ pc' = "raised"
            /\ exc' = "TypeError"
            /\ UNCHANGED da
       ELSE /\ pc' = "pressure"
            /\ da' = density_altitude(elevation, Val(d.pressure_inhg), Val(d.temperature_c))
            /\ UNCHANGED exc
    /\ UNCHANGED <<ident, response, airports_csv, runways_csv, args, metar, d, weight,
                   airport, elevation, pa, to_nw, land_nw, summary, rws, idx, phase, rows,
                   calls>>
    /\ UNCHANGED otherVars

\* pa = pressure_altitude(elevation, d['pressure_inhg'])
PressureAltitude ==
    /\ pc = "pressure"
    /\ pa' = pressure_altitude(elevation, Val(d.pressure_inhg))
    /\ pc' = "takeoff"
    /\ UNCHANGED <<exc, ident, response, airports_csv, runways_csv, args, metar, d,
                   weight, airport, elevation, da, to_nw, land_nw, summary, rws, idx,
                   phase, rows, calls>>
    /\ UNCHANGED otherVars

Takeoff50 ==
    /\ pc = "takeoff"
    /\ to_nw' = takeoff_50_nowind(weight.weight, da)
    /\ calls' = Append(calls, "takeoff_50_nowind")
    /\ pc' = "landing"
    /\ UNCHANGED <<exc, ident, response, airports_csv, runways_csv, args, metar, d,
                   weight, airport, elevation, da, pa, land_nw, summary, rws, idx, phase,
                   rows>>
    /\ UNCHANGED otherVars

Landing50 ==
    /\ pc = "landing"
    /\ land_nw' = landing_50_nowind(weight.weight, da)
    /\ calls' = Append(calls, "landing_50_nowind")
    /\ pc' = "summary"
    /\ UNCHANGED <<exc, ident, response, airports_csv, runways_csv, args, metar, d,
                   weight, airport, elevation, da, pa, to_nw, summary, rws, idx, phase,
                   rows>>
    /\ UNCHANGED otherVars

\* headwind and crosswind against runway * 10, printed with the weather table
Summary ==
    /\ pc = "summary"
    /\ summary' = [headwind |-> headwind_kt(d.wind_speed_kt, d.wind_direction,
                                             args.runway * 10),
                   crosswind |-> crosswind_kt(d.wind_speed_kt, d.wind_direction,
                                               args.runway * 10)]
    /\ pc' = "runways"
    /\ UNCHANGED <<exc, ident, response, airports_csv, runways_csv, args, metar, d,
                   weight, airport, elevation, da, pa, to_nw, land_nw, rws, idx, phase,
                   rows, calls>>
    /\ UNCHANGED otherVars

LookupRunways ==
    /\ pc = "runways"
    /\ rws' = SelectRunways(runways_csv, ident)
    /\ idx' = 1
    /\ phase' = "fwd"
    /\ pc' = "loop"
    /\ UNCHANGED <<exc, ident, response, airports_csv, runways_csv, args, metar, d,
                   weight, airport, elevation, da, pa, to_nw, land_nw, summary, rows,
                   calls>>
    /\ UNCHANGED otherVars

\* Eligible with the water test on the first character instead of the last
EligibleFirstChar(rw) == rw.closed # 1 /\ rw.le_ident[1] # "W"

\* print_performance returns early for a closed runway and for a water runway
Eligible(rw) == rw.closed # 1 /\ rw.le_ident[Len(rw.le_ident)] # "W"

\* the crosswind as printed: str(crosswind) + 'R', str(-crosswind) + 'L', or 0
CrosswindLabel(c) ==
    IF c > 0 THEN Append(str(c), "R")
    ELSE IF c < 0 THEN Append(str(-c), "L")
    ELSE str(0)

\* the heading __print_performance resolves the wind against
RowHeading(rw, rev) ==
    IF rev = FALSE THEN rw.he_heading_degT ELSE rev_heading(rw.he_heading_degT)

\* the designator __print_performance prints
RowName(rw, rev) == IF rev = FALSE THEN rw.le_ident ELSE rev_name(rw.le_ident)

\* __print_performance(d, weight, to_nw, land_nw, rw, rev): the block it prints
PerformanceRow(obs, w, to_nw_, land_nw_, rw, rev) ==
    LET le == RowHeading(rw, rev)
        headwind == headwind_kt(obs.wind_speed_kt, obs.wind_direction, le)
        crosswind == crosswind_kt(obs.wind_speed_kt, obs.wind_direction, le)
        headwind_gust == headwind_kt(obs.wind_gust_kt, obs.wind_direction, le)
        tf == 18 * Val(obs.temperature_c) + 320      \* (temperature_c * 9/5) + 32, 1/10 F
        alt == Val(obs.pressure_inhg)                \* d['pressure_inhg'], read as feet
    IN  [ rw |-> rw,
          rev |-> rev,
          name |-> RowName(rw, rev),
          headwind |-> headwind,
          crosswind |-> CrosswindLabel(crosswind),
          length |-> rw.length_ft,
          to_nw |-> to_nw_,
          to |-> headwind_takeoff(115 * headwind, to_nw_),
          to_gust |-> headwind_takeoff(115 * headwind_gust, to_nw_),
          land_nw |-> land_nw_,
          land |-> headwind_land(115 * headwind, land_nw_),
          land_gust |-> headwind_land(115 * headwind_gust, land_nw_),
          start_stop_calm |-> accelerate_stop_distance(tf, alt, w, 0),
          start_stop |-> accelerate_stop_distance(tf, alt, w, 115 * headwind_gust),
          start_stop_gust |-> accelerate_stop_distance(tf, alt, w, 115 * headwind_gust) ]

\* the model functions one __print_performance call evaluates, in order
RowCalls ==
    << "headwind_takeoff", "headwind_land", "headwind_takeoff", "headwind_land",
       "accelerate_stop_distance", "accelerate_stop_distance", "accelerate_stop_distance" >>

\* print_performance for a closed or a water runway: nothing is printed
SkipRunway ==
    /\ pc = "loop"
    /\ idx <= Len(rws)
    /\ ~Eligible(rws[idx])
    /\ idx' = idx + 1
    /\ UNCHANGED <<pc, exc, ident, response, airports_csv, runways_csv, args, metar, d,
                   weight, airport, elevation, da, pa, to_nw, land_nw, summary, rws,
                   phase, rows, calls>>
    /\ UNCHANGED otherVars

\* __print_performance(d, weight, to_nw, land_nw, rw, False)
PrintForward ==
    /\ pc = "loop"
    /\ idx <= Len(rws)
    /\ Eligible(rws[idx])
    /\ phase = "fwd"
    /\ rows' = Append(rows, PerformanceRow(d, weight.weight, to_nw, land_nw,
                                           rws[idx], FALSE))
    /\ calls' = calls \o RowCalls
    /\ phase' = "rev"
    /\ UNCHANGED <<pc, exc, ident, response, airports_csv, runways_csv, args, metar, d,
                   weight, airport, elevation, da, pa, to_nw, land_nw, summary, rws, idx>>
    /\ UNCHANGED otherVars

\* __print_performance(d, weight, to_nw, land_nw, rw, True)
PrintReciprocal ==
    /\ pc = "loop"
    /\ idx <= Len(rws)
    /\ phase = "rev"
    /\ rows' = Append(rows, PerformanceRow(d, weight.weight, to_nw, land_nw,
                                           rws[idx], TRUE))
    /\ calls' = calls \o RowCalls
    /\ phase' = "fwd"
    /\ idx' = idx + 1
    /\ UNCHANGED <<pc, exc, ident, response, airports_csv, runways_csv, args, metar, d,
                   weight, airport, elevation, da, pa, to_nw, land_nw, summary, rws>>
    /\ UNCHANGED otherVars

\* the for loop is exhausted: the run ends normally
Finish ==
    /\ pc = "loop"
    /\ idx > Len(rws)
    /\ pc' = "done"
    /\ UNCHANGED <<exc, ident, response, airports_csv, runways_csv, args, metar, d,
                   weight, airport, elevation, da, pa, to_nw, land_nw, summary, rws, idx,
                   phase, rows, calls>>
    /\ UNCHANGED otherVars

RunNext ==
    \/ FetchMetar
    \/ ParseMetar
    \/ WeightBalance
    \/ LookupAirport
    \/ Elevation
    \/ DensityAltitude
    \/ PressureAltitude
    \/ Takeoff50
    \/ Landing50
    \/ Summary
    \/ LookupRunways
    \/ SkipRunway
    \/ PrintForward
    \/ PrintReciprocal
    \/ Finish

RunIdle ==
    /\ pc = "idle" /\ exc = "" /\ ident = Unset /\ response = Unset
    /\ airports_csv = Unset /\ runways_csv = Unset /\ args = Unset /\ metar = Unset
    /\ d = Unset /\ weight = Unset /\ airport = Unset /\ elevation = 0 /\ da = 0
    /\ pa = 0 /\ to_nw = 0 /\ land_nw = 0 /\ summary = Unset /\ rws = Unset /\ idx = 0
    /\ phase = "fwd" /\ rows = <<>> /\ calls = <<>>
RevIdle == rn_orig = Unset /\ rn_cur = Unset /\ rn_count = 0
MetarIdle == m_in = Unset /\ m_result = None
AsdIdle == a_in = Unset /\ a_out = 0 /\ a_prev = 0 /\ a_step = "idle"

Init == RunInit /\ RevIdle /\ MetarIdle /\ AsdIdle
Next == RunNext
Spec == Init /\ [][Next]_vars

(***************************************************************************)
(* The reciprocal of a runway end, taken repeatedly                        *)
(***************************************************************************)
\* Designators 01..36, alone or with L or R
Designators ==
    { <<DigitChar(n \div 10), DigitChar(n % 10)>> \o suffix :
        n \in 1..36, suffix \in {<<>>, <<"L">>, <<"R">>} }
Headings == {0, 90, 270, 350}
\* how often the reciprocal is taken
MaxApply == 2

RevInit ==
    /\ rn_orig \in [name : Designators, heading : Headings]
    /\ rn_cur = rn_orig
    /\ rn_count = 0
    /\ RunIdle /\ MetarIdle /\ AsdIdle

\* name = rev_name(name); le = (le + 180) % 360.  int() of a designator that does
\* not start with two digits raises ValueError, which is kept as the name.
Reciprocal ==
    /\ rn_count < MaxApply
    /\ rn_cur.name # ValueError
    /\ rn_cur' = [name |-> rev_name(rn_cur.name), heading |-> rev_heading(rn_cur.heading)]
    /\ rn_count' = rn_count + 1
    /\ UNCHANGED <<rn_orig, runVars, metarVars, asdVars>>

RevNext == Reciprocal
SpecRevName == RevInit /\ [][RevNext]_vars

(***************************************************************************)
(* parse_metar applied to one report                                       *)
(***************************************************************************)
WindGroups ==
    { <<"1", "4", "0", "1", "2", "G", "1", "8", "K", "T">>,
      <<"1", "4", "0", "1", "2", "K", "T">>,
      <<"V", "R", "B", "0", "5", "K", "T">>,
      <<"V", "R", "B", "0", "3", "G", "1", "5", "K", "T">>,
      <<"1", "4", "0", "1", "2", "G", "0", "8", "K", "T">>,
      <<"0", "0", "0", "0", "0", "K", "T">> }
TempGroups == { <<"3", "2", "/", "2", "6">>, <<"M", "0", "5", "/", "M", "0", "7">> }
PressureGroups == { <<"A", "3", "0", "0", "4">>, <<"A", "2", "9", "9", "2">> }
TrailingGroups == { <<"R", "M", "K", " ", "A", "O", "2">> }

\* a report: station, time, then the groups that are present, one blank between
Report(wind, temp, pressure, trailing) ==
    LET Opt(g) == IF g = <<>> THEN <<>> ELSE <<g>>
    IN  [ wind |-> wind, temp |-> temp, pressure |-> pressure,
          text |-> Join(<<Station, ObsTime>> \o Opt(wind) \o Opt(temp) \o Opt(pressure)
                        \o Opt(trailing)) ]

MetarInit ==
    /\ m_in \in { Report(w, t, a, x) : w \in WindGroups \cup {<<>>},
                                       t \in TempGroups \cup {<<>>},
                                       a \in PressureGroups \cup {<<>>},
                                       x \in TrailingGroups \cup {<<>>} }
    /\ m_result = None
    /\ RunIdle /\ RevIdle /\ AsdIdle

ParseReport ==
    /\ IsNone(m_result)
    /\ m_result' = Some(parse_metar(m_in.text))
    /\ UNCHANGED <<m_in, runVars, revVars, asdVars>>

MetarNext == ParseReport
SpecMetar == MetarInit /\ [][MetarNext]_vars

(***************************************************************************)
(* accelerate_stop_distance at one input, then at a greater weight or a    *)
(* greater headwind with the other inputs fixed                            *)
(***************************************************************************)
MaxWeightStep == 7
MaxHeadwindStep == 6
\* 2500 lb upward in steps of 500 lb; -5 mph upward in steps of 6 mph
AsdWeights == {250000 + 50000 * k : k \in 0..MaxWeightStep}
AsdHeadwinds == {-500 + 600 * k : k \in 0..MaxHeadwindStep}
\* -70 F, 59 F, 150 F;  -3000 ft, 0 ft, 5000 ft, 20000 ft
AsdTemperatures == {-700, 590, 1500}
AsdAltitudes == {-300000, 0, 500000, 2000000}

AsdOf(in) == accelerate_stop_distance(in.t, in.p, in.w, in.h)

AsdInit ==
    /\ a_in \in [t : AsdTemperatures, p : AsdAltitudes, w : AsdWeights, h : AsdHeadwinds]
    /\ a_out = AsdOf(a_in)
    /\ a_prev = a_out
    /\ a_step = "init"
    /\ RunIdle /\ RevIdle /\ MetarIdle

RaiseWeight ==
    /\ a_step = "init"
    /\ \E w2 \in AsdWeights :
          /\ w2 > a_in.w
          /\ a_in' = [a_in EXCEPT !.w = w2]
    /\ a_prev' = a_out
    /\ a_out' = AsdOf(a_in')
    /\ a_step' = "weight"
    /\ UNCHANGED <<runVars, revVars, metarVars>>

RaiseHeadwind ==
    /\ a_step = "init"
    /\ \E h2 \in AsdHeadwinds :
          /\ h2 > a_in.h
          /\ a_in' = [a_in EXCEPT !.h = h2]
    /\ a_prev' = a_out
    /\ a_out' = AsdOf(a_in')
    /\ a_step' = "headwind"
    /\ UNCHANGED <<runVars, revVars, metarVars>>

AsdNext == RaiseWeight \/ RaiseHeadwind
SpecASD == AsdInit /\ [][AsdNext]_vars

(***************************************************************************)
(* The claims                                                              *)
(***************************************************************************)

\* C1 (SpecRevName): taking the reciprocal of a runway end twice returns the
\* original designator string and the original heading.
C1_ReciprocalInvolution == rn_count = 2 => rn_cur = rn_orig

\* C2 (SpecMetar): a report whose wind group is variable (VRB) and has no gust
\* group parses to wind direction 0, wind speed 0 and gust 0.
C2_VariableWindNoGust ==
    ( /\ ~IsNone(m_result)
      /\ m_in.wind # <<>>
      /\ m_in.wind[1] = "V"
      /\ \A i \in 1..Len(m_in.wind) : m_in.wind[i] # "G" )
    => /\ Val(m_result).wind_direction = 0
       /\ Val(m_result).wind_speed_kt = 0
       /\ Val(m_result).wind_gust_kt = 0

\* C3 (SpecMetar): every observation parse_metar produces has
\* wind_speed_kt <= wind_gust_kt.
C3_SpeedAtMostGust ==
    ~IsNone(m_result) => Val(m_result).wind_speed_kt <= Val(m_result).wind_gust_kt

\* The run has parsed a report that lacks the temperature group or the altimeter
\* group, for an airport that has a record.
MalformedObservation ==
    /\ pc \notin {"fetch", "parse", "exit"}
    /\ IsNone(d.temperature_c) \/ IsNone(d.pressure_inhg)
    /\ SelectAirport(airports_csv, ident) # <<>>

\* C4 (Spec): a report with unparseable weather fields is not fatal: the run does
\* not raise.
C4_MalformedNonFatal == MalformedObservation => pc # "raised"

\* C5 (Spec): when the airport has no airport record or no runway record, no
\* performance function (takeoff_50_nowind, landing_50_nowind, the wind
\* adjustments, accelerate_stop_distance) is ever called.
C5_MissingRecordBeforePerformance ==
    ( \/ SelectAirport(airports_csv, ident) = <<>>
      \/ SelectRunways(runways_csv, ident) = <<>> )
    => calls = <<>>

\* C6 (SpecASD): with temperature and pressure altitude fixed, a greater weight
\* never gives a smaller accelerate-stop distance, a greater headwind never gives
\* a greater one, and every result lies in [600, 8000]; the inputs include values
\* outside the operating ranges.
C6_MonotoneAndBounded ==
    /\ a_out >= 600 /\ a_out <= 8000
    /\ a_step = "weight" => a_prev <= a_out
    /\ a_step = "headwind" => a_prev >= a_out

\* C6 witness: the weight was raised beyond 5600 lb and the distance grew.
C6_Witness == a_step = "weight" /\ a_in.w > 560000 /\ a_prev < a_out

\* The rows the claim C7 expects for a list of records: per record that is
\* neither closed nor a water runway, the forward row, then the reciprocal row.
RECURSIVE ExpectedRows(_)
ExpectedRows(list) ==
    IF list = <<>> THEN <<>>
    ELSE LET rw == Head(list)
             water == rw.le_ident[Len(rw.le_ident)] = "W"
         IN  (IF rw.closed = 1 \/ water THEN <<>>
              ELSE << [rw |-> rw, rev |-> FALSE, name |-> rw.le_ident],
                      [rw |-> rw, rev |-> TRUE, name |-> rev_name(rw.le_ident)] >>)
             \o ExpectedRows(Tail(list))

RowKeys == [i \in 1..Len(rows) |-> [rw |-> rows[i].rw, rev |-> rows[i].rev,
                                   name |-> rows[i].name]]

RowGustHeadwind(r) ==
    headwind_kt(d.wind_gust_kt, d.wind_direction, RowHeading(r.rw, r.rev))
\* (temperature_c * 9/5) + 32, in 1/10 F
RowTempF == 18 * Val(d.temperature_c) + 320

\* C8 (Spec): in every row the steady-wind takeoff, landing and accelerate-stop
\* distances are the models at 1.15 x the steady headwind, and the gust distances
\* are the models at 1.15 x the gust headwind.
C8_SteadyUsesSteadyHeadwind ==
    \A i \in 1..Len(rows) :
        LET r == rows[i]
            alt == Val(d.pressure_inhg)
        IN  /\ r.to = headwind_takeoff(115 * r.headwind, to_nw)
            /\ r.land = headwind_land(115 * r.headwind, land_nw)
            /\ r.to_gust = headwind_takeoff(115 * RowGustHeadwind(r), to_nw)
            /\ r.land_gust = headwind_land(115 * RowGustHeadwind(r), land_nw)
            /\ r.start_stop = accelerate_stop_distance(RowTempF, alt, weight.weight,
                                                       115 * r.headwind)
            /\ r.start_stop_gust = accelerate_stop_distance(RowTempF, alt, weight.weight,
                                                            115 * RowGustHeadwind(r))

\* C9 (Spec): in every row the three accelerate-stop distances are the model at
\* the airport's pressure altitude pa = pressure_altitude(elevation, altimeter).
C9_StartStopAtPressureAltitude ==
    \A i \in 1..Len(rows) :
        LET r == rows[i]
        IN  /\ r.start_stop_calm
                 = accelerate_stop_distance(RowTempF, 100 * pa, weight.weight, 0)
            /\ r.start_stop_gust
                 = accelerate_stop_distance(RowTempF, 100 * pa, weight.weight,
                                            115 * RowGustHeadwind(r))

\* C10 (Spec): the forward row, labelled with the low end's designator, resolves
\* the wind against the low end's heading, and the reciprocal row against that
\* heading plus 180 modulo 360.
C10_HeadingOfLabelledEnd ==
    \A i \in 1..Len(rows) :
        LET r == rows[i]
            le == IF r.rev THEN rev_heading(r.rw.le_heading_degT)
                  ELSE r.rw.le_heading_degT
        IN  /\ r.headwind = headwind_kt(d.wind_speed_kt, d.wind_direction, le)
            /\ r.crosswind
                 = CrosswindLabel(crosswind_kt(d.wind_speed_kt, d.wind_direction, le))

====
